---- MODULE Spec2Model ----
(***************************************************************************)
(* Model of go() in src/main.py: the orchestrator of the ML pipeline.      *)
(*                                                                         *)
(* A Python str is modelled as a sequence of lexical chunks: a chunk is a  *)
(* whole word ("download", "bogus", "all", ...), the separator "," or a    *)
(* blank " ".  The str "download, basic_cleaning" is                        *)
(* <<"download", ",", " ", "basic_cleaning">>.  Two strs are equal iff     *)
(* their chunk sequences are equal.  A path is a sequence of components.   *)
(***************************************************************************)
EXTENDS Integers, Sequences, FiniteSets, TLC

VARIABLES
    config,        \* the DictConfig handed to go(): values and present keys
    cwd,           \* working directory of the process (never changed by go)
    env,           \* os.environ restricted to the two WANDB_ variables
    active_steps,  \* local variable active_steps (a list of strs)
    pc,            \* position of go()
    blk,           \* index of the if-block of the chain that go() is at
    sub,           \* index of the next call inside the download block
    tmp_dir,       \* path bound by the with statement, <<>> before it
    fs,            \* paths that exist in the file system
    rf_config,     \* local variable rf_config, <<>> before line 105
    rf_arg,        \* value passed after "--rf_config", <<>> if not passed
    running,       \* stages whose external process / run is in progress
    started,       \* history: stages started, in order
    calls,         \* history: tracking-client calls completed by download
    failed,        \* history: the stage that failed, "none" otherwise
    raised,        \* exception propagating out of go(), "none" otherwise
    artifact,      \* the wandb.Artifact built by the download block
    launched       \* history: the subprocess.run / mlflow.run calls made

vars == <<config, cwd, env, active_steps, pc, blk, sub, tmp_dir, fs,
          rf_config, rf_arg, running, started, calls, failed, raised,
          artifact, launched>>

----------------------------------------------------------------------------
(* Bounds of the explored inputs *)

MaxTokens == 3

MaxCfgTokens == 2

----------------------------------------------------------------------------
(* Strings, lists and paths *)

Range(s) == {s[i] : i \in 1..Len(s)}

Last(s) == s[Len(s)]

IsPrefix(s, t) == Len(s) <= Len(t) /\ SubSeq(t, 1, Len(s)) = s

\* str.split(sep): always at least one element, empty strs are kept
RECURSIVE Split(_, _)
Split(s, sep) ==
    IF \A i \in 1..Len(s) : s[i] # sep
    THEN <<s>>
    ELSE LET i == CHOOSE j \in 1..Len(s) :
                      s[j] = sep /\ \A k \in 1..(j-1) : s[k] # sep
         IN  <<SubSeq(s, 1, i-1)>> \o Split(SubSeq(s, i+1, Len(s)), sep)

\* x in lst, for a list of strs
In(x, lst) == \E i \in 1..Len(lst) : lst[i] = x

\* os.path.abspath(name) of a relative one-component name
Abspath(name, dir) == dir \o name

\* p lies inside directory d
IsUnder(p, d) == Len(p) > Len(d) /\ SubSeq(p, 1, Len(d)) = d

----------------------------------------------------------------------------
(* The stage table *)

_stepsWithEvaluation ==
    << <<"download">>, <<"basic_cleaning">>, <<"data_check">>,
       <<"data_split">>, <<"train_random_forest">>,
       <<"test_regression_model">> >>

_steps ==
    << <<"download">>, <<"basic_cleaning">>, <<"data_check">>,
       <<"data_split">>, <<"train_random_forest">> >>

BlocksSwapped ==
    <<"basic_cleaning", "download", "data_split", "data_check",
      "test_regression_model", "train_random_forest">>

BlocksEvaluationFirst ==
    <<"test_regression_model", "download", "basic_cleaning", "data_check",
      "data_split", "train_random_forest">>

BlocksRepeated ==
    <<"download", "download", "basic_cleaning", "data_check", "data_split",
      "train_random_forest", "test_regression_model">>

\* the if-blocks of go(), in the order they appear in the with statement
Blocks ==
    <<"download", "basic_cleaning", "data_check", "data_split",
      "train_random_forest", "test_regression_model">>

\* configuration keys read while the block of a stage assembles its call
StageKeys(s) ==
    CASE s = "download" -> {"etl.sample"}
      [] s = "basic_cleaning" ->
            {"etl.output_artifact", "etl.output_type",
             "etl.output_description", "etl.min_price", "etl.max_price"}
      [] s = "data_check" ->
            {"data_check.kl_threshold", "etl.min_price", "etl.max_price"}
      [] s = "data_split" ->
            {"main.components_repository", "modeling.test_size",
             "modeling.random_seed", "modeling.stratify_by"}
      [] s = "train_random_forest" ->
            {"modeling.val_size", "modeling.random_seed",
             "modeling.stratify_by", "modeling.max_tfidf_features",
             "modeling.output_artifact"}
      [] s = "test_regression_model" -> {"main.components_repository"}

DownloadBodyNoWait == <<"Artifact", "add_file", "log_artifact">>

\* the calls of the download block, in order
DownloadBody == <<"Artifact", "add_file", "log_artifact", "wait">>

----------------------------------------------------------------------------
(* Inputs *)

ConfigKeys ==
    {"main.project_name", "main.experiment_name", "main.steps",
     "main.components_repository",
     "etl.sample", "etl.output_artifact", "etl.output_type",
     "etl.output_description", "etl.min_price", "etl.max_price",
     "data_check.kl_threshold",
     "modeling.test_size", "modeling.random_seed", "modeling.stratify_by",
     "modeling.val_size", "modeling.max_tfidf_features",
     "modeling.output_artifact", "modeling.random_forest"}

\* configurations explored: complete, or with one key absent
MissingChoices ==
    {{}, {"main.project_name"}, {"etl.sample"}, {"etl.min_price"},
     {"modeling.test_size"}, {"modeling.random_forest"}}

Words ==
    {"download", "basic_cleaning", "data_check", "data_split",
     "train_random_forest", "test_regression_model", "bogus", "all", "ALL"}

\* tokens a directive is written with: a word, a word after a blank,
\* a word before a blank, or nothing
TokenChoices ==
    {<<w>> : w \in Words}
      \cup {<<" ", w>> : w \in {"download", "basic_cleaning"}}
      \cup {<<"data_check", " ">>, <<>>}

TokenLists == UNION {[1..n -> TokenChoices] : n \in 1..MaxTokens}

RECURSIVE Join(_)
Join(toks) ==
    IF Len(toks) = 1 THEN toks[1]
    ELSE toks[1] \o <<",">> \o Join(SubSeq(toks, 2, Len(toks)))

Directives == {Join(t) : t \in TokenLists}

CwdChoices == {<<"repo", "outputs">>, <<"tmp">>}

\* the directory tempfile.TemporaryDirectory() creates
TmpPath == <<"tmp", "tmp_dir">>

----------------------------------------------------------------------------
(* Configuration values and their conversion *)

\* a configuration value carries its Python type
IntVal(n) == [type |-> "int", val |-> n]

StrVal(t) == [type |-> "str", val |-> t]

FloatVal(t) == [type |-> "float", val |-> t]

DigitChars == <<"0", "1", "2", "3", "4", "5", "6", "7", "8", "9">>

\* str(n) of an int: its decimal digits
RECURSIVE IntToStr(_)
IntToStr(n) ==
    IF n < 0 THEN <<"-">> \o IntToStr(0 - n)
    ELSE IF n < 10 THEN <<DigitChars[n + 1]>>
    ELSE IntToStr(n \div 10) \o <<DigitChars[(n % 10) + 1]>>

PyStrAsFloat(v) ==
    IF v.type = "int" THEN IntToStr(v.val) \o <<".", "0">> ELSE v.val

\* str(v): never raises; a str is returned as it is
PyStr(v) == IF v.type = "int" THEN IntToStr(v.val) ELSE v.val

\* the values of a configuration as shipped with the project
DefaultValues ==
    [k \in {"main.components_repository",
            "etl.sample", "etl.output_artifact", "etl.output_type",
            "etl.output_description", "etl.min_price", "etl.max_price",
            "data_check.kl_threshold",
            "modeling.test_size", "modeling.random_seed",
            "modeling.stratify_by", "modeling.val_size",
            "modeling.max_tfidf_features", "modeling.output_artifact"} |->
       CASE k = "main.components_repository" -> StrVal(<<"components">>)
         [] k = "etl.sample" -> StrVal(<<"sample.csv">>)
         [] k = "etl.output_artifact" -> StrVal(<<"clean_sample">>)
         [] k = "etl.output_type" -> StrVal(<<"clean_sample">>)
         [] k = "etl.output_description" -> StrVal(<<"cleaned">>)
         [] k = "etl.min_price" -> IntVal(10)
         [] k = "etl.max_price" -> IntVal(350)
         [] k = "data_check.kl_threshold" -> FloatVal(<<"0", ".", "2">>)
         [] k = "modeling.test_size" -> FloatVal(<<"0", ".", "2">>)
         [] k = "modeling.random_seed" -> IntVal(42)
         [] k = "modeling.stratify_by" -> StrVal(<<"neighbourhood_group">>)
         [] k = "modeling.val_size" -> FloatVal(<<"0", ".", "2">>)
         [] k = "modeling.max_tfidf_features" -> IntVal(5)
         [] k = "modeling.output_artifact" ->
               StrVal(<<"random_forest_export">>)]

SampleChoices == {StrVal(<<"sample.csv">>), StrVal(<<"sample2.csv">>)}

OutputArtifactChoices ==
    {StrVal(<<"clean_sample">>), StrVal(<<"clean_sample.csv">>)}

MinPriceChoices == {IntVal(10), IntVal(0), StrVal(<<"abc">>)}

MaxPriceChoices == {IntVal(1000), IntVal(350)}

\* the configurations explored when the values vary
ValueChoices ==
    {[DefaultValues EXCEPT !["etl.sample"] = sa,
                           !["etl.output_artifact"] = oa,
                           !["etl.min_price"] = lo,
                           !["etl.max_price"] = hi] :
        sa \in SampleChoices, oa \in OutputArtifactChoices,
        lo \in MinPriceChoices, hi \in MaxPriceChoices}

\* the directives explored when the values vary: stage names and "all"
CfgTokenLists ==
    UNION {[1..n -> {<<w>> : w \in Words \ {"bogus", "ALL"}}] :
              n \in 1..MaxCfgTokens}

CfgDirectives == {Join(t) : t \in CfgTokenLists}

\* hydra.utils.get_original_cwd()
OriginalCwd == <<"repo">>

\* os.path.join
PathJoin(a, b) == a \o b

MakeConfig(d, m, v) ==
    [project_name |-> <<"nyc_airbnb">>,
     experiment_name |-> <<"development">>,
     steps |-> d,
     present |-> ConfigKeys \ m,
     val |-> v]

----------------------------------------------------------------------------
(* Steps of go() *)

Has(k) == k \in config.present

\* config[section][key]
Get(k) == config.val[k]

NoArtifact == [name |-> <<>>, type |-> <<>>, description |-> <<>>]

\* lines 44-48
NewArtifact ==
    [name |-> Get("etl.sample").val,
     type |-> <<"raw_data">>,
     description |-> <<"Raw data from local file">>]

\* the call that starts stage s: lines 59-71, 75-86, 90-99, 111-124, 137-144
Launch(s) ==
    CASE s = "basic_cleaning" ->
           [stage |-> s, kind |-> "subprocess",
            args |-> << <<"python">>, <<"run.py">>,
                        <<"--input_artifact">>, <<"sample.csv", ":", "latest">>,
                        <<"--output_artifact">>, Get("etl.output_artifact").val,
                        <<"--output_type">>, Get("etl.output_type").val,
                        <<"--output_description">>,
                        Get("etl.output_description").val,
                        <<"--min_price">>, PyStr(Get("etl.min_price")),
                        <<"--max_price">>, PyStr(Get("etl.max_price")) >>,
            cwd |-> PathJoin(OriginalCwd, <<"src", "basic_cleaning">>)]
      [] s = "data_check" ->
           [stage |-> s, kind |-> "subprocess",
            args |-> << <<"pytest">>, <<".">>, <<"-vv">>,
                        <<"--csv">>, <<"clean_sample", ":", "latest">>,
                        <<"--ref">>, <<"clean_sample", ":", "reference">>,
                        <<"--kl_threshold">>,
                        PyStr(Get("data_check.kl_threshold")),
                        <<"--min_price">>, PyStr(Get("etl.min_price")),
                        <<"--max_price">>, PyStr(Get("etl.max_price")) >>,
            cwd |-> PathJoin(OriginalCwd, <<"src", "data_check">>)]
      [] s = "data_split" ->
           [stage |-> s, kind |-> "mlflow",
            uri |-> Get("main.components_repository").val
                       \o <<"/", "train_val_test_split">>,
            entry_point |-> <<"main">>,
            parameters |->
               [input |-> <<"clean_sample", ":", "latest">>,
                test_size |-> Get("modeling.test_size"),
                random_seed |-> Get("modeling.random_seed"),
                stratify_by |-> Get("modeling.stratify_by")]]
      [] s = "train_random_forest" ->
           [stage |-> s, kind |-> "subprocess",
            args |-> << <<"python">>, <<"run.py">>,
                        <<"--trainval_artifact">>,
                        <<"trainval_data", ":", "latest">>,
                        <<"--val_size">>, PyStr(Get("modeling.val_size")),
                        <<"--random_seed">>,
                        PyStr(Get("modeling.random_seed")),
                        <<"--stratify_by">>, Get("modeling.stratify_by").val,
                        <<"--rf_config">>, rf_config,
                        <<"--max_tfidf_features">>,
                        PyStr(Get("modeling.max_tfidf_features")),
                        <<"--output_artifact">>,
                        Get("modeling.output_artifact").val >>,
            cwd |-> PathJoin(OriginalCwd, <<"src", "train_random_forest">>)]
      [] s = "test_regression_model" ->
           [stage |-> s, kind |-> "mlflow",
            uri |-> Get("main.components_repository").val
                       \o <<"/", "test_regression_model">>,
            entry_point |-> <<"main">>,
            parameters |->
               [mlflow_model |-> <<"random_forest_export", ":", "prod">>,
                test_dataset |-> <<"test_data", ":", "latest">>]]

RunGroupEnvSwapped(c) ==
    [WANDB_PROJECT |-> c.experiment_name, WANDB_RUN_GROUP |-> c.project_name]

\* lines 30-31
RunGroupEnv(c) ==
    [WANDB_PROJECT |-> c.project_name, WANDB_RUN_GROUP |-> c.experiment_name]

UncheckedExit(rc) == "ok"

\* subprocess.run(..., check=True)
CheckedExit(rc) == IF rc = 0 THEN "ok" ELSE "CalledProcessError"

KeepTree(files, d) == files

\* TemporaryDirectory.__exit__: the directory and all it contains
RemoveTree(files, d) == {p \in files : p # d /\ ~IsUnder(p, d)}

StillRunning(r, s) == r

\* the external process / run of s has ended
Reaped(r, s) == r \ {s}

\* go() is entered with configuration c
Entered(c) ==
    /\ config = c
    /\ cwd \in CwdChoices
    /\ env = [WANDB_PROJECT |-> <<>>, WANDB_RUN_GROUP |-> <<>>]
    /\ active_steps = <<>>
    /\ pc = "env"
    /\ blk = 0
    /\ sub = 0
    /\ tmp_dir = <<>>
    /\ fs = {cwd}
    /\ rf_config = <<>>
    /\ rf_arg = <<>>
    /\ running = {}
    /\ started = <<>>
    /\ calls = <<>>
    /\ failed = "none"
    /\ raised = "none"
    /\ artifact = NoArtifact
    /\ launched = <<>>

Init ==
    \E d \in Directives, m \in MissingChoices :
        Entered(MakeConfig(d, m, DefaultValues))

InitCfg ==
    \E d \in CfgDirectives, m \in MissingChoices, v \in ValueChoices :
        Entered(MakeConfig(d, m, v))

\* lines 30-31: the two assignments to os.environ
SetupEnv ==
    /\ pc = "env"
    /\ IF Has("main.project_name") /\ Has("main.experiment_name")
       THEN /\ env' = RunGroupEnv(config)
            /\ pc' = "select"
            /\ raised' = raised
       ELSE /\ env' = IF Has("main.project_name")
                      THEN [env EXCEPT !.WANDB_PROJECT = config.project_name]
                      ELSE env
            /\ pc' = "done"
            /\ raised' = "ConfigKeyError"
    /\ UNCHANGED <<config, cwd, active_steps, blk, sub, tmp_dir, fs,
                   rf_config, rf_arg, running, started, calls, failed,
                   artifact, launched>>

\* lines 34-37
SelectSteps ==
    /\ pc = "select"
    /\ IF Has("main.steps")
       THEN /\ active_steps' = IF config.steps # <<"all">>
                               THEN Split(config.steps, ",")
                               ELSE _steps
            /\ pc' = "open"
            /\ raised' = raised
       ELSE /\ pc' = "done"
            /\ raised' = "ConfigKeyError"
            /\ active_steps' = active_steps
    /\ UNCHANGED <<config, cwd, env, blk, sub, tmp_dir, fs, rf_config,
                   rf_arg, running, started, calls, failed, artifact,
                   launched>>

\* line 40: TemporaryDirectory.__enter__
OpenWorkspace ==
    /\ pc = "open"
    /\ tmp_dir' = TmpPath
    /\ fs' = fs \cup {TmpPath}
    /\ pc' = "if"
    /\ blk' = 1
    /\ UNCHANGED <<config, cwd, env, active_steps, sub, rf_config, rf_arg,
                   running, started, calls, failed, raised, artifact,
                   launched>>

AtBlock(s) == blk \in 1..Len(Blocks) /\ Blocks[blk] = s

\* control leaves the current if-block normally
Advance ==
    /\ blk' = blk + 1
    /\ pc' = IF blk + 1 > Len(Blocks) THEN "cleanup" ELSE "if"

\* an exception leaves the with statement
Raise(e) ==
    /\ raised' = e
    /\ pc' = "cleanup"
    /\ blk' = blk

\* lines 42, 58, 74, 89, 102, 132: the condition of an if-block is false
SkipBlock ==
    /\ pc = "if"
    /\ blk \in 1..Len(Blocks)
    /\ ~In(<<Blocks[blk]>>, active_steps)
    /\ Advance
    /\ UNCHANGED <<config, cwd, env, active_steps, sub, tmp_dir, fs,
                   rf_config, rf_arg, running, started, calls, failed,
                   raised, artifact, launched>>

Active(s) == pc = "if" /\ AtBlock(s) /\ In(<<s>>, active_steps)

\* lines 42-43: the download block is entered and wandb.init() is called
DownloadInit ==
    /\ Active("download")
    /\ started' = Append(started, "download")
    /\ \/ /\ running' = running \cup {"download"}
          /\ pc' = "body"
          /\ sub' = 1
          /\ UNCHANGED <<blk, failed, raised>>
       \/ /\ failed' = "download"
          /\ Raise("CommError")
          /\ UNCHANGED <<running, sub>>
    /\ UNCHANGED <<config, cwd, env, active_steps, tmp_dir, fs, rf_config,
                   rf_arg, calls, artifact, launched>>

\* lines 44-56: the next call of the download block returns or raises
DownloadStep ==
    /\ pc = "body"
    /\ sub \in 1..Len(DownloadBody)
    /\ LET call == DownloadBody[sub] IN
       \/ /\ Has("etl.sample")
          /\ calls' = Append(calls, call)
          /\ artifact' = IF call = "Artifact" THEN NewArtifact ELSE artifact
          /\ sub' = sub + 1
          /\ UNCHANGED <<pc, blk, running, failed, raised>>
       \/ /\ call # "Artifact" \/ ~Has("etl.sample")
          /\ running' = Reaped(running, "download")
          /\ failed' = "download"
          /\ Raise(IF Has("etl.sample") THEN "CommError" ELSE "ConfigKeyError")
          /\ UNCHANGED <<calls, sub, artifact>>
    /\ UNCHANGED <<config, cwd, env, active_steps, tmp_dir, fs, rf_config,
                   rf_arg, started, launched>>

\* line 56 to 58: the with statement of the run is left normally
DownloadExit ==
    /\ pc = "body"
    /\ sub > Len(DownloadBody)
    /\ running' = Reaped(running, "download")
    /\ Advance
    /\ UNCHANGED <<config, cwd, env, active_steps, sub, tmp_dir, fs,
                   rf_config, rf_arg, started, calls, failed, raised,
                   artifact, launched>>

\* the argument list of stage s is assembled and its process / run starts
StartStage(s) ==
    /\ IF StageKeys(s) \subseteq config.present
       THEN /\ started' = Append(started, s)
            /\ running' = running \cup {s}
            /\ pc' = "wait"
            /\ rf_arg' = IF s = "train_random_forest" THEN rf_config ELSE rf_arg
            /\ launched' = Append(launched, Launch(s))
            /\ UNCHANGED <<blk, raised>>
       ELSE /\ Raise("ConfigKeyError")
            /\ UNCHANGED <<started, running, rf_arg, launched>>
    /\ UNCHANGED <<config, cwd, env, active_steps, sub, tmp_dir, fs,
                   rf_config, calls, failed, artifact>>

\* subprocess.run(..., check=True) returns or raises
EndProcess(s) ==
    /\ pc = "wait"
    /\ AtBlock(s)
    /\ \E rc \in {0, 1} :
          /\ running' = Reaped(running, s)
          /\ failed' = IF rc # 0 THEN s ELSE failed
          /\ IF CheckedExit(rc) = "ok"
             THEN Advance /\ raised' = raised
             ELSE Raise(CheckedExit(rc))
    /\ UNCHANGED <<config, cwd, env, active_steps, sub, tmp_dir, fs,
                   rf_config, rf_arg, started, calls, artifact, launched>>

\* mlflow.run(...) returns or raises
EndRun(s) ==
    /\ pc = "wait"
    /\ AtBlock(s)
    /\ running' = Reaped(running, s)
    /\ \/ Advance /\ UNCHANGED <<failed, raised>>
       \/ failed' = s /\ Raise("ExecutionException")
    /\ UNCHANGED <<config, cwd, env, active_steps, sub, tmp_dir, fs,
                   rf_config, rf_arg, started, calls, artifact, launched>>

\* lines 58-71
BasicCleaningStart == Active("basic_cleaning") /\ StartStage("basic_cleaning")

BasicCleaningEnd == EndProcess("basic_cleaning")

\* lines 74-86
DataCheckStart == Active("data_check") /\ StartStage("data_check")

DataCheckEnd == EndProcess("data_check")

\* lines 89-99
DataSplitStart == Active("data_split") /\ StartStage("data_split")

DataSplitEnd == EndRun("data_split")

\* lines 102-107: rf_config.json is opened for writing and filled
WriteRfConfig ==
    /\ Active("train_random_forest")
    /\ rf_config' = Abspath(<<"rf_config.json">>, cwd)
    /\ fs' = fs \cup {rf_config'}
    /\ IF Has("modeling.random_forest")
       THEN pc' = "rf_written" /\ UNCHANGED <<blk, raised>>
       ELSE Raise("ConfigKeyError")
    /\ UNCHANGED <<config, cwd, env, active_steps, sub, tmp_dir, rf_arg,
                   running, started, calls, failed, artifact, launched>>

\* lines 111-124
TrainRandomForestStart ==
    /\ pc = "rf_written"
    /\ StartStage("train_random_forest")

TrainRandomForestEnd == EndProcess("train_random_forest")

\* lines 132-144
TestRegressionModelStart ==
    Active("test_regression_model") /\ StartStage("test_regression_model")

TestRegressionModelEnd == EndRun("test_regression_model")

\* line 40: TemporaryDirectory.__exit__, normal or exceptional
CloseWorkspace ==
    /\ pc = "cleanup"
    /\ fs' = RemoveTree(fs, tmp_dir)
    /\ pc' = "done"
    /\ UNCHANGED <<config, cwd, env, active_steps, blk, sub, tmp_dir,
                   rf_config, rf_arg, running, started, calls, failed,
                   raised, artifact, launched>>

Next ==
    \/ SetupEnv
    \/ SelectSteps
    \/ OpenWorkspace
    \/ SkipBlock
    \/ DownloadInit
    \/ DownloadStep
    \/ DownloadExit
    \/ BasicCleaningStart
    \/ BasicCleaningEnd
    \/ DataCheckStart
    \/ DataCheckEnd
    \/ DataSplitStart
    \/ DataSplitEnd
    \/ WriteRfConfig
    \/ TrainRandomForestStart
    \/ TrainRandomForestEnd
    \/ TestRegressionModelStart
    \/ TestRegressionModelEnd
    \/ CloseWorkspace

Spec == Init /\ [][Next]_vars

\* the same program, entered with varying configuration values
SpecCfg == InitCfg /\ [][Next]_vars

TypeOK ==
    /\ pc \in {"env", "select", "open", "if", "body", "wait", "rf_written",
               "cleanup", "done"}
    /\ blk \in 0..(Len(Blocks) + 1)
    /\ running \subseteq Range(Blocks)
    /\ Range(started) \subseteq Range(Blocks)
    /\ failed \in Range(Blocks) \cup {"none"}

----------------------------------------------------------------------------
(* Vocabulary of the properties *)

\* the canonical stage table, in order
CanonicalOrder ==
    <<"download", "basic_cleaning", "data_check", "data_split",
      "train_random_forest", "test_regression_model">>

StageNames == Range(CanonicalOrder)

Ordinal(s) == CHOOSE i \in 1..Len(CanonicalOrder) : CanonicalOrder[i] = s

\* the tokens of the directive
Tokens == Range(Split(config.steps, ","))

\* str.strip() of a token: blanks at both ends removed
RECURSIVE Strip(_)
Strip(t) ==
    IF t # <<>> /\ t[1] = " " THEN Strip(SubSeq(t, 2, Len(t)))
    ELSE IF t # <<>> /\ t[Len(t)] = " " THEN Strip(SubSeq(t, 1, Len(t) - 1))
    ELSE t

\* the canonical table restricted to the stages in set S
Restricted(S) == SelectSeq(CanonicalOrder, LAMBDA s : s \in S)

\* the stages the if-blocks find in active_steps, in canonical order
ActiveSequence == Restricted({s \in StageNames : In(<<s>>, active_steps)})

HasUnknownToken ==
    /\ config.steps # <<"all">>
    /\ \E t \in Tokens : \A s \in StageNames : t # <<s>>

AllTokensValid == \A t \in Tokens : \E s \in StageNames : t = <<s>>

Completed == pc = "done" /\ raised = "none"

----------------------------------------------------------------------------
(* Properties *)

\* C1: a directive with a token that is no stage name makes go() fail with
\* an error before any stage starts: no stage is started in that invocation.
C1_UnknownTokenRunsNothing ==
    HasUnknownToken =>
        /\ started = <<>>
        /\ pc = "done" => raised # "none"

\* C2: once a stage has failed, it is the last stage started, and the stages
\* started are a prefix of the active sequence.
C2_FailureStopsChain ==
    failed # "none" =>
        /\ started # <<>>
        /\ Last(started) = failed
        /\ IsPrefix(started, ActiveSequence)

C2_Witness ==
    /\ pc = "done"
    /\ failed = "basic_cleaning"
    /\ raised = "CalledProcessError"
    /\ started = <<"download", "basic_cleaning">>
    /\ In(<<"data_check">>, active_steps)

\* C3: the temporary directory exists from before the first stage starts
\* and while a stage runs, and neither it nor anything inside it exists
\* once go() has ended, however go() ended.
C3_WorkspaceScoped ==
    /\ running # {} => tmp_dir \in fs
    /\ started # <<>> /\ pc # "done" => tmp_dir \in fs
    /\ pc \in {"if", "body", "wait", "rf_written"} => tmp_dir \in fs
    /\ pc = "done" => \A p \in fs : p # TmpPath /\ ~IsUnder(p, TmpPath)

C3_Witness ==
    /\ pc = "done"
    /\ raised = "ConfigKeyError"
    /\ started = <<"download">>
    /\ In(<<"basic_cleaning">>, active_steps)
    /\ tmp_dir = TmpPath
    /\ tmp_dir \notin fs

\* C4: the random-forest configuration file passed as --rf_config lies
\* inside the temporary directory and is gone once go() has ended.
C4_RfConfigInWorkspace ==
    /\ rf_arg # <<>> => rf_arg = rf_config /\ IsUnder(rf_arg, tmp_dir)
    /\ rf_config # <<>> => IsUnder(rf_config, tmp_dir)
    /\ pc = "done" => rf_config \notin fs

\* C5: when every token of the directive is a stage name, stages start in
\* canonical order, and a run without failure starts exactly the named
\* stages in canonical order.
C5_CanonicalOrder ==
    AllTokensValid =>
        /\ \A i, j \in 1..Len(started) :
              i < j => Ordinal(started[i]) < Ordinal(started[j])
        /\ Completed =>
              started = Restricted({s \in StageNames : <<s>> \in Tokens})

C5_Witness ==
    /\ config.steps = <<"data_split", ",", "download">>
    /\ Completed
    /\ started = <<"download", "data_split">>

\* C6: under the directive "all" the evaluation stage never starts, and a
\* run without failure starts exactly the five other stages, in order.
C6_AllExcludesEvaluation ==
    config.steps = <<"all">> =>
        /\ "test_regression_model" \notin Range(started)
        /\ IsPrefix(started, SubSeq(CanonicalOrder, 1, 5))
        /\ Completed => started = SubSeq(CanonicalOrder, 1, 5)

C6_Witness ==
    /\ config.steps = <<"all">>
    /\ Completed
    /\ Len(started) = 5

\* C7: a stage after download has started only if download's log_artifact
\* and, after it, the wait for the artifact have completed.
C7_PublishBeforeNextStage ==
    \A i \in 1..Len(started) :
        started[i] = "download" /\ i < Len(started) =>
            \E a, b \in 1..Len(calls) :
                a < b /\ calls[a] = "log_artifact" /\ calls[b] = "wait"

C7_Witness ==
    /\ started = <<"download", "basic_cleaning">>
    /\ running = {"basic_cleaning"}
    /\ calls = <<"Artifact", "add_file", "log_artifact", "wait">>

\* C8: from before the first stage until go() ends, the project and group
\* identifiers of the environment are the configured ones.
C8_RunGroupSet ==
    (running # {} \/ started # <<>> \/ pc \notin {"env", "done"}) =>
        /\ env.WANDB_PROJECT = config.project_name
        /\ env.WANDB_RUN_GROUP = config.experiment_name

C8_Witness ==
    /\ running = {"data_check"}
    /\ env.WANDB_PROJECT = <<"nyc_airbnb">>
    /\ env.WANDB_RUN_GROUP = <<"development">>

\* C9: a run without failure starts the stages named by the trimmed tokens
\* of the directive.
C9_TokensTrimmed ==
    (Completed /\ config.steps # <<"all">>) =>
        started = Restricted({s \in StageNames :
                                 \E t \in Tokens : Strip(t) = <<s>>})

\* C10: at most one stage is in progress, and it is the stage started last.
C10_OneAtATime ==
    /\ Cardinality(running) <= 1
    /\ running # {} => started # <<>> /\ running = {Last(started)}

C10_Witness ==
    /\ running = {"data_split"}
    /\ started = <<"download", "basic_cleaning", "data_split">>

----------------------------------------------------------------------------
(* Properties of the arguments of the stages *)

IsInt(v, n) == v.type = "int" /\ v.val = n

IsStr(v, t) == v.type = "str" /\ v.val = t

\* the launches of stage s
LaunchesOf(s) == {i \in 1..Len(launched) : launched[i].stage = s}

\* the value that follows flag f in an argument list
FlagValue(args, f) ==
    args[(CHOOSE i \in 1..(Len(args) - 1) : args[i] = <<f>>) + 1]

\* the name part of a reference name:tag
NamePart(ref) == Split(ref, ":")[1]

C11_Scenario ==
    /\ config.steps = <<"download", ",", "basic_cleaning">>
    /\ IsStr(Get("etl.sample"), <<"sample.csv">>)
    /\ IsInt(Get("etl.min_price"), 10)
    /\ IsInt(Get("etl.max_price"), 1000)

\* C11: in the scenario only download and then basic_cleaning start, the
\* artifact download logs is sample.csv of type raw_data, and
\* basic_cleaning is called with the reference sample.csv:latest and with
\* the arguments --min_price 10 --max_price 1000.
C11_DownloadCleaningScenario ==
    C11_Scenario =>
        /\ IsPrefix(started, <<"download", "basic_cleaning">>)
        /\ Completed => started = <<"download", "basic_cleaning">>
        /\ "log_artifact" \in Range(calls) =>
              /\ artifact.name = <<"sample.csv">>
              /\ artifact.type = <<"raw_data">>
        /\ \A i \in LaunchesOf("basic_cleaning") :
              LET args == launched[i].args IN
              /\ FlagValue(args, "--input_artifact")
                    = <<"sample.csv", ":", "latest">>
              /\ SubSeq(args, Len(args) - 3, Len(args))
                    = << <<"--min_price">>, <<"1", "0">>,
                         <<"--max_price">>, <<"1", "0", "0", "0">> >>

C11_Witness ==
    /\ C11_Scenario
    /\ Completed
    /\ started = <<"download", "basic_cleaning">>
    /\ "log_artifact" \in Range(calls)
    /\ LaunchesOf("basic_cleaning") = {1}

\* the configuration keys stage s needs
RequiredKeys(s) ==
    StageKeys(s) \cup
        (IF s = "train_random_forest" THEN {"modeling.random_forest"} ELSE {})

\* a price bound that is not a number
Malformed(k) ==
    /\ k \in {"etl.min_price", "etl.max_price"}
    /\ Get(k).type \notin {"int", "float"}

BadKey(s) == \E k \in RequiredKeys(s) : ~Has(k) \/ Malformed(k)

\* C12: an active stage with a missing or malformed required key is never
\* started, and neither is any stage after it.
C12_BadKeyStopsBeforeStage ==
    \A s \in StageNames :
        (In(<<s>>, active_steps) /\ BadKey(s)) =>
            \A t \in StageNames :
                Ordinal(t) >= Ordinal(s) => t \notin Range(started)

----------------------------------------------------------------------------
(* Properties of the evaluation stage and of repetition *)

EvaluationNamed == <<"test_regression_model">> \in Tokens

EvaluationStarted == "test_regression_model" \in Range(started)

EvaluationInputs ==
    \A i \in LaunchesOf("test_regression_model") :
        /\ launched[i].parameters.mlflow_model
              = <<"random_forest_export", ":", "prod">>
        /\ launched[i].parameters.test_dataset
              = <<"test_data", ":", "latest">>

\* C13 as stated: once go() has ended, the evaluation stage has started
\* exactly if a token of the directive names it.
C13_EvaluationIffNamed ==
    /\ EvaluationStarted => EvaluationNamed
    /\ pc = "done" /\ EvaluationNamed => EvaluationStarted
    /\ EvaluationStarted => Last(started) = "test_regression_model"
    /\ EvaluationInputs

\* C13 amended: the evaluation stage starts only if a token of the
\* directive names it, it has started whenever a token names it and go()
\* ended without an exception, and when started it is the last stage and
\* reads random_forest_export:prod and test_data:latest.
C13_EvaluationOnlyIfNamed ==
    /\ EvaluationStarted => EvaluationNamed
    /\ Completed /\ EvaluationNamed => EvaluationStarted
    /\ EvaluationStarted => Last(started) = "test_regression_model"
    /\ EvaluationInputs

C13_Witness ==
    /\ config.steps = <<"test_regression_model", ",", "download">>
    /\ Completed
    /\ started = <<"download", "test_regression_model">>
    /\ LaunchesOf("test_regression_model") = {1}

\* C14: the name part of the reference each stage is given is the name its
\* producer was configured to publish: etl.sample for basic_cleaning,
\* etl.output_artifact for data_check and data_split.
C14_ReferencesNamePublished ==
    /\ \A i \in LaunchesOf("basic_cleaning") :
          Has("etl.sample") =>
              NamePart(FlagValue(launched[i].args, "--input_artifact"))
                  = Get("etl.sample").val
    /\ \A i \in LaunchesOf("data_check") :
          NamePart(FlagValue(launched[i].args, "--csv"))
              = Get("etl.output_artifact").val
    /\ \A i \in LaunchesOf("data_split") :
          Has("etl.output_artifact") =>
              NamePart(launched[i].parameters.input)
                  = Get("etl.output_artifact").val
    /\ ("download" \in Range(started) /\ "log_artifact" \in Range(calls)) =>
          \A i \in LaunchesOf("basic_cleaning") :
              NamePart(FlagValue(launched[i].args, "--input_artifact"))
                  = artifact.name

\* C15: no stage is started twice in one invocation of go().
C15_StartedAtMostOnce ==
    \A i, j \in 1..Len(started) : i # j => started[i] # started[j]

C15_Witness ==
    /\ config.steps = <<"download", ",", "download">>
    /\ pc = "done"
    /\ failed = "download"
    /\ started = <<"download">>
====
